---- MODULE Spec2Model ----
(***************************************************************************)
(* reddit-sushi-grade-bot: the stream loops, the responders, the S3-backed *)
(* reply ledger, the cleanup sweeper and the supervisor of bot/main.py and *)
(* bot/cache.py, as a system of process invocations that share one ledger  *)
(* document and one platform.                                              *)
(***************************************************************************)
EXTENDS Integers, Sequences, FiniteSets, TLC

\* ------------------------------------------------------------------ bounds

\* A stream loop consumes events while its `checked` counter is below this.
MaxChecked == 2
\* A reply is posted only while fewer than this many were posted in the thread.
MaxPosts == 2
\* A ledger counter is written only up to this value.
MaxCount == 2
\* A cleanup loop inspects replies while its `comments_checked` is below this.
MaxSwept == 2

\* --------------------------------------------------------- program constants

MAX_COMMENT_REPLIES_PER_SUBMISSION == 1
\* cleanuploop: `if comment.score < -1`
SCORE_THRESHOLD == -1

\* ------------------------------------------------------------------ domains

\* Process invocations of main.py that run against the same bucket.
Procs == {"p1", "p2"}
\* Submission ids (a thread is a submission and the comments under it).
Threads == {"t1", "t2"}
\* argparse flags: --comments --submissions --cleanup --dry-run
Args == [comments : BOOLEAN, submissions : BOOLEAN, cleanup : BOOLEAN, dry_run : BOOLEAN]

\* A text is a sequence of words; consecutive words are separated by one space.
Lower(w) ==
    CASE w = "Sashimi" -> "sashimi"
      [] w = "Aquariums" -> "aquariums"
      [] OTHER -> w

\* re.findall of a literal, IGNORECASE, inside one word: substring containment.
WordContains(w, lit) ==
    \/ Lower(w) = lit
    \/ <<Lower(w), lit>> \in {<<"aquariums", "aquarium">>}

HasWord(text, S) == \E i \in 1..Len(text) : Lower(text[i]) \in S

Fishy == {"sushi", "sashimi"}

\* TRIGGER_TERMS[n] matched anywhere in the text (re.findall(term, text) non-empty).
TriggerTermMatches(n, text) ==
    LET L == Len(text)
        W(i) == Lower(text[i])
    IN CASE n = 1 -> \* (sushi|sashimi)[-\s]*(grade|cut)
                \E i \in 1..(L - 1) : W(i) \in Fishy /\ W(i + 1) \in {"grade", "cut"}
         [] n = 2 -> \* \W(fish|sushi|...)\s.+raw\s+consumption
                \E i \in 2..L : \E j \in (i + 2)..(L - 1) :
                    /\ W(i) \in {"fish", "sushi", "sashimi", "ceviche", "poke", "salmon", "tuna"}
                    /\ W(j) = "raw" /\ W(j + 1) = "consumption"
         [] n = 3 -> \* costco.*salmon.*\s(sushi|sashimi|poke)
                \E i \in 1..L : \E j \in (i + 1)..L : \E k \in (j + 1)..L :
                    W(i) = "costco" /\ W(j) = "salmon" /\ W(k) \in {"sushi", "sashimi", "poke"}
         [] n = 4 -> \* (sushi|sashimi|poke)\s.*costco.*salmon
                \E i \in 1..L : \E j \in (i + 1)..L : \E k \in (j + 1)..L :
                    W(i) \in {"sushi", "sashimi", "poke"} /\ W(j) = "costco" /\ W(k) = "salmon"
         [] n = 5 -> \* \W(sushi|sashimi|salmon|tuna|fish)\s.*parasites
                \E i \in 2..L : \E j \in (i + 1)..L :
                    W(i) \in {"sushi", "sashimi", "salmon", "tuna", "fish"} /\ W(j) = "parasites"
         [] n = 6 -> \* parasites.*\s(sushi|sashimi)
                \E i \in 1..L : \E j \in (i + 1)..L : W(i) = "parasites" /\ W(j) \in Fishy
         [] n = 7 -> \* (frozen|freez).*\s(kill|remove|destroy|weaken)\s+parasites
                \E i \in 1..L : \E j \in (i + 1)..(L - 1) :
                    /\ W(i) \in {"frozen", "freeze", "freezing"}
                    /\ W(j) \in {"kill", "remove", "destroy", "weaken"} /\ W(j + 1) = "parasites"
         [] OTHER -> \* (anisakis|anisakiasis)
                HasWord(text, {"anisakis", "anisakiasis"})

TRIGGER_TERMS == 1..8

\* BLACKLIST_MATCH: the literals 'betta', 'aquarium', 'reeftank', and the two
\* patterns written '\btank\b' and '\breef\b' in non-raw strings, where \b is the
\* backspace character: they match only a word wrapped in backspaces, which no
\* text of the vocabulary contains.
BlacklistTermMatches(term, text) ==
    CASE term \in {"betta", "aquarium", "reeftank"} ->
             \E i \in 1..Len(text) : WordContains(text[i], term)
      [] OTHER -> FALSE

BLACKLIST_MATCH == {"betta", "aquarium", "\\btank\\b", "\\breef\\b", "reeftank"}

\* any([re.findall(term, text) for term in TRIGGER_TERMS])
MatchesTrigger(text) == \E n \in TRIGGER_TERMS : TriggerTermMatches(n, text)

\* any([re.findall(term, text) for term in BLACKLIST_MATCH])
MatchesBlacklist(text) == \E term \in BLACKLIST_MATCH : BlacklistTermMatches(term, text)

\* ------------------------------------------------------------------- events

Bodies == {<<"sushi", "grade">>, <<"Sashimi", "cut", "aquarium">>, <<"hello", "tank">>}
Subreddits == {"sushi", "Aquariums"}
\* submission.selftext: None or '' for a link post, else the post's text
Selftexts == {<<>>, <<"betta">>}

\* One comment per thread is enough to tell replies to a comment from replies to
\* its submission. A comment carries its subreddit's display name and its body; a
\* submission its title and selftext.
CommentEvents ==
    [kind : {"comment"}, thread : Threads, sub : Subreddits, title : {<<>>}, body : Bodies]
SubmissionEvents ==
    [kind : {"submission"}, thread : Threads, sub : {"sushi"}, title : Bodies, body : Selftexts]
Events == CommentEvents \cup SubmissionEvents
\* The threads whose comments and submissions the streams deliver; the other
\* thread is one an earlier run of the bot has replied in.
StreamThreads == {"t1"}
OldThreads == Threads \ StreamThreads
StreamEvents == {e \in Events : e.thread \in StreamThreads}
NoEvent == [kind |-> "none"]

\* What the bot can reply to, and so what can carry a reply of the bot.
Items == {"comment", "submission"} \X Threads
Item(e) == <<e.kind, e.thread>>

\* The text the trigger terms are matched against: comment.body, or
\* submission.title + ' ' + (submission.selftext or '').
CombinedText(e) == IF e.kind = "comment" THEN e.body ELSE e.title \o e.body

\* The text the blacklist is matched against: for a comment
\* f'{comment.subreddit.display_name} : {comment.body}', for a submission
\* title_and_text.
ContextText(e) ==
    IF e.kind = "comment" THEN <<e.sub, ":">> \o e.body ELSE CombinedText(e)

\* ------------------------------------------------------------------- ledger

\* The S3 object bucket/cache.json is <<>> when there is no such key, else <<doc>>
\* with doc the JSON document: the set of its key/value members.
NoSuchKey == <<>>
\* f'replies_per_submission:{id}'
LedgerKey(t) == <<"replies_per_submission", t>>
EmptyDict == [k \in {} |-> 0]

\* json.dumps(data) / json.loads(data)
Dumps(d) == {<<k, d[k]>> : k \in DOMAIN d}
Loads(doc) == [k \in {m[1] : m \in doc} |-> (CHOOSE m \in doc : m[1] = k)[2]]

\* RemoteFileCache.read: NoSuchKey is an empty dict
Read(obj) == IF obj = NoSuchKey THEN EmptyDict ELSE Loads(obj[1])

\* dict.get(key): <<>> stands for None
DictGet(d, k) == IF k \in DOMAIN d THEN <<d[k]>> ELSE <<>>
\* RemoteFileCache.get
CacheGet(obj, k) == DictGet(Read(obj), k)
\* (mutant) `cache.get(...) or 1`
OrOne(o) == IF o = <<>> THEN 1 ELSE o[1]
\* `cache.get(...) or 0`
OrZero(o) == IF o = <<>> THEN 0 ELSE o[1]
\* (mutant) data = {key: value}
DictSetAlone(d, k, v) == [x \in {k} |-> v]
\* data[key] = value
DictSet(d, k, v) == [x \in DOMAIN d \cup {k} |-> IF x = k THEN v ELSE d[x]]
\* RemoteFileCache.set's put: Body=json.dumps(data)
PutObject(d) == <<Dumps(d)>>

\* -------------------------------------------------------------------- state

VARIABLES
    args,       \* args[p]: the flags process p was started with
    pc,         \* pc[p]: where process p is
    exc,        \* exc[p]: the exception propagating out of p's mode loop
    loop,       \* loop[p]: the mode loop main() has entered
    cur,        \* cur[p]: the comment/submission the stream loop holds
    checked,    \* checked[p]: `checked` (stream loops), `comments_checked` (cleanup)
    responded,  \* responded[p]: comments_replied_to / submissions_replied_to
    rpt,        \* rpt[p]: replies_per_thread
    data,       \* data[p]: `data` inside RemoteFileCache.set, between read and put
    batch,      \* batch[p]: own replies of the fetched listing not yet inspected
    cm,         \* cm[p]: the own reply the cleanup loop is inspecting, with its score
    store,      \* the S3 object holding the ledger
    replies,    \* replies[i]: live replies of the bot under item i
    upvoted,    \* upvoted[i]: the bot has upvoted item i
    posts,      \* posts[t]: replies the bot has ever posted into thread t
    incs,       \* incs[t]: ledger increments completed for thread t
    last        \* last[p]: the event p's responder last decided on, the decision,
                \*          and whether it was decided once or again (1, 2), while
                \*          ledger and platform are as they were then
    ,unpaced    \* unpaced[p]: p has posted a reply and not slept the cooldown since

vars == <<args, pc, exc, loop, cur, checked, responded, rpt, data, batch, cm,
          store, replies, upvoted, posts, incs, last, unpaced>>

Scores == {-5, -2, -1, 0, 3}
NoDecision == [p \in Procs |-> <<>>]
\* last, once p has reached decision d on the event it holds
Decided(p, d) ==
    [last EXCEPT ![p] =
        <<cur[p], d, IF last[p] # <<>> /\ last[p][1] = cur[p] THEN 2 ELSE 1>>]
NoComment == [item |-> <<"none", "none">>, score |-> 0]
NoBatch == [i \in Items |-> 0]

\* The command lines tried: no mode flag, one, or all three, with or without
\* --dry-run.
ModeFlags(a) == {m \in {"comments", "submissions", "cleanup"} : a[m]}
LaunchArgs == {a \in Args : Cardinality(ModeFlags(a)) \in {0, 1, 3}}

\* The deployments with one stream process at most: p1 runs with any of the
\* command lines, p2 runs the sweeper or has no mode selected.
SingleWriter ==
    {f \in [Procs -> LaunchArgs] :
        ~f["p2"].comments /\ ~f["p2"].submissions /\ ~f["p2"].dry_run}

\* What earlier runs have left: nothing (no ledger object, no reply), or one reply
\* under the submission of each old thread, with its ledger counter at 1.
Fresh ==
    /\ store = NoSuchKey
    /\ replies = [i \in Items |-> 0]
    /\ upvoted = [i \in Items |-> FALSE]
    /\ posts = [t \in Threads |-> 0]
    /\ incs = [t \in Threads |-> 0]
Seasoned ==
    /\ store = PutObject([k \in {LedgerKey(t) : t \in OldThreads} |-> 1])
    /\ replies = [i \in Items |-> IF i[1] = "submission" /\ i[2] \in OldThreads THEN 1 ELSE 0]
    /\ upvoted = [i \in Items |-> i[1] = "submission" /\ i[2] \in OldThreads]
    /\ posts = [t \in Threads |-> IF t \in OldThreads THEN 1 ELSE 0]
    /\ incs = [t \in Threads |-> IF t \in OldThreads THEN 1 ELSE 0]

Init ==
    /\ args \in SingleWriter
    /\ pc = [p \in Procs |-> "main"]
    /\ exc = [p \in Procs |-> "none"]
    /\ loop = [p \in Procs |-> "none"]
    /\ cur = [p \in Procs |-> NoEvent]
    /\ checked = [p \in Procs |-> 0]
    /\ responded = [p \in Procs |-> 0]
    /\ rpt = [p \in Procs |-> 0]
    /\ data = [p \in Procs |-> EmptyDict]
    /\ batch = [p \in Procs |-> NoBatch]
    /\ cm = [p \in Procs |-> NoComment]
    /\ last = NoDecision
    /\ unpaced = [p \in Procs |-> FALSE]
    /\ Fresh \/ Seasoned

\* ------------------------------------------------------------- supervisor

\* (mutant) with no mode selected, the comment loop is run
ModeOfOrComments(a) ==
    IF a.comments THEN "comments"
    ELSE IF a.submissions THEN "submissions"
    ELSE IF a.cleanup THEN "cleanup"
    ELSE "comments"
\* main(): the `if args.comments / if args.submissions / if args.cleanup` chain.
\* A mode loop never returns normally (the stream is unbounded, the cleanup loop
\* is `while True`), so the first selected mode is the one that runs.
ModeOf(a) ==
    IF a.comments THEN "comments"
    ELSE IF a.submissions THEN "submissions"
    ELSE IF a.cleanup THEN "cleanup"
    ELSE "none"

\* main(): one pass of `while True` up to the entry of the selected loop, whose
\* first statements set its counters to 0; with no mode, sys.exit(1).
Main(p) ==
    /\ pc[p] = "main"
    /\ loop' = [loop EXCEPT ![p] = ModeOf(args[p])]
    /\ checked' = [checked EXCEPT ![p] = 0]
    /\ responded' = [responded EXCEPT ![p] = 0]
    /\ pc' = [pc EXCEPT ![p] =
                 CASE ModeOf(args[p]) \in {"comments", "submissions"} -> "loop"
                   [] ModeOf(args[p]) = "cleanup" -> "fetch"
                   [] OTHER -> "exit1"]
    /\ UNCHANGED <<args, exc, cur, rpt, data, batch, cm, store, replies, upvoted, posts, incs, last, unpaced>>

\* ------------------------------------------------------------ stream loops

\* `for comment in comments` / `for submission in submissions`: the stream hands
\* over the next event; any event of the loop's kind may come, also one seen before.
NextEvent(p, e) ==
    /\ pc[p] = "loop"
    /\ checked[p] < MaxChecked
    /\ e.kind = (IF loop[p] = "comments" THEN "comment" ELSE "submission")
    /\ cur' = [cur EXCEPT ![p] = e]
    /\ pc' = [pc EXCEPT ![p] = "match"]
    /\ UNCHANGED <<args, exc, loop, checked, responded, rpt, data, batch, cm,
                   store, replies, upvoted, posts, incs, last, unpaced>>

\* The end of one loop iteration: `checked += 1`, next event.
Counted(p) ==
    /\ checked' = [checked EXCEPT ![p] = @ + 1]
    /\ pc' = [pc EXCEPT ![p] = "loop"]
    /\ cur' = cur
    /\ rpt' = [rpt EXCEPT ![p] = 0]

\* The blacklist branch: `continue`, which skips `checked += 1`.
Skipped(p) ==
    /\ checked' = checked
    /\ pc' = [pc EXCEPT ![p] = "loop"]
    /\ cur' = cur
    /\ rpt' = [rpt EXCEPT ![p] = 0]

\* `if any(matches)` and, inside it, the blacklist test.
Triggered(e) == MatchesTrigger(CombinedText(e))
\* (mutant) the blacklist matched against the text alone, without the subreddit
BlacklistedTextOnly(e) == MatchesBlacklist(CombinedText(e))
Blacklisted(e) == MatchesBlacklist(ContextText(e))

\* commentloop / submissionloop: the trigger and blacklist tests on the event.
Match(p) ==
    /\ pc[p] = "match"
    /\ IF ~Triggered(cur[p]) THEN Counted(p)
       ELSE IF Blacklisted(cur[p]) THEN Skipped(p)
       ELSE /\ pc' = [pc EXCEPT ![p] = "replies"]
            /\ UNCHANGED <<cur, checked, rpt>>
    /\ UNCHANGED <<args, exc, loop, responded, data, batch, cm,
                   store, replies, upvoted, posts, incs, last, unpaced>>

\* comment.replies.list() holds the bot's replies to the comment;
\* submission.comments.list() holds every comment of the thread, so the bot's
\* replies to the submission and to its comments.
AlreadyReplied(e, rep) ==
    IF e.kind = "comment" THEN rep[Item(e)] > 0
    ELSE rep[<<"submission", e.thread>>] + rep[<<"comment", e.thread>>] > 0

\* reply_to_comment / reply_to_submission: the loop over the existing replies.
\* reply_to_comment goes on to read the cache, reply_to_submission to its
\* dry-run test.
CheckReplies(p) ==
    /\ pc[p] = "replies"
    /\ IF AlreadyReplied(cur[p], replies) THEN Counted(p)
       ELSE /\ pc' = [pc EXCEPT ![p] = IF cur[p].kind = "comment" THEN "get" ELSE "respond"]
            /\ UNCHANGED <<cur, checked, rpt>>
    /\ last' = IF AlreadyReplied(cur[p], replies) THEN Decided(p, FALSE)
               ELSE IF cur[p].kind = "submission" THEN Decided(p, TRUE)
               ELSE last
    /\ UNCHANGED <<args, exc, loop, responded, data, batch, cm,
                   store, replies, upvoted, posts, incs, unpaced>>

\* (mutant) `replies_per_thread > MAX_COMMENT_REPLIES_PER_SUBMISSION`
CeilingExceeded(e, n) ==
    e.kind = "comment" /\ n > MAX_COMMENT_REPLIES_PER_SUBMISSION
\* (mutant) reply_to_comment without its ceiling test
CeilingIgnored(e, n) == FALSE
\* Only reply_to_comment compares the count with the ceiling.
CeilingReached(e, n) ==
    e.kind = "comment" /\ n >= MAX_COMMENT_REPLIES_PER_SUBMISSION

\* replies_per_thread = cache.get(key) or 0; reply_to_comment then returns False
\* at the ceiling and else goes on to its dry-run test; reply_to_submission goes
\* on to cache.set.
LedgerGet(p) ==
    /\ pc[p] = "get"
    /\ LET n == OrZero(CacheGet(store, LedgerKey(cur[p].thread)))
       IN IF CeilingReached(cur[p], n) THEN Counted(p)
          ELSE /\ rpt' = [rpt EXCEPT ![p] = n]
               /\ pc' = [pc EXCEPT ![p] =
                            IF cur[p].kind = "comment" THEN "respond" ELSE "set_read"]
               /\ UNCHANGED <<cur, checked>>
    /\ last' = IF cur[p].kind = "comment"
               THEN Decided(p, ~CeilingReached(cur[p],
                                  OrZero(CacheGet(store, LedgerKey(cur[p].thread)))))
               ELSE last
    /\ UNCHANGED <<args, exc, loop, responded, data, batch, cm,
                   store, replies, upvoted, posts, incs, unpaced>>

\* (mutant) the responder posts without the cache.set before it
RespondNoReserve(p) ==
    /\ pc[p] = "respond"
    /\ IF args[p].dry_run THEN Counted(p)
       ELSE /\ pc' = [pc EXCEPT ![p] = "reply"]
            /\ UNCHANGED <<cur, checked, rpt>>
    /\ UNCHANGED <<args, exc, loop, responded, data, batch, cm,
                   store, replies, upvoted, posts, incs, last, unpaced>>

\* `if not args.dry_run` (reply_to_comment) / `if args.dry_run`
\* (reply_to_submission): a dry run logs and returns False.
Respond(p) ==
    /\ pc[p] = "respond"
    /\ IF args[p].dry_run THEN Counted(p)
       ELSE /\ pc' = [pc EXCEPT ![p] = IF cur[p].kind = "comment" THEN "set_read" ELSE "get"]
            /\ UNCHANGED <<cur, checked, rpt>>
    /\ UNCHANGED <<args, exc, loop, responded, data, batch, cm,
                   store, replies, upvoted, posts, incs, last, unpaced>>

\* cache.set: data = self.read()
SetRead(p) ==
    /\ pc[p] = "set_read"
    /\ data' = [data EXCEPT ![p] = Read(store)]
    /\ pc' = [pc EXCEPT ![p] = "set_put"]
    /\ UNCHANGED <<args, exc, loop, cur, checked, responded, rpt, batch, cm,
                   store, replies, upvoted, posts, incs, last, unpaced>>

\* (mutant) a put that merges the key into the document as it is at the put
SetPutMerging(p) ==
    /\ pc[p] = "set_put"
    /\ rpt[p] + 1 <= MaxCount
    /\ store' = PutObject(DictSet(Read(store), LedgerKey(cur[p].thread), rpt[p] + 1))
    /\ data' = [data EXCEPT ![p] = EmptyDict]
    /\ pc' = [pc EXCEPT ![p] = "reply"]
    /\ incs' = [incs EXCEPT ![cur[p].thread] = @ + 1]
    /\ last' = NoDecision
    /\ UNCHANGED <<args, exc, loop, cur, checked, responded, rpt, batch, cm,
                   replies, upvoted, posts, unpaced>>

\* (mutant) cache.set(key, replies_per_thread): the count is written back as read
SetPutNoIncrement(p) ==
    /\ pc[p] = "set_put"
    /\ rpt[p] + 1 <= MaxCount
    /\ store' = PutObject(DictSet(data[p], LedgerKey(cur[p].thread), rpt[p]))
    /\ data' = [data EXCEPT ![p] = EmptyDict]
    /\ pc' = [pc EXCEPT ![p] = "reply"]
    /\ incs' = [incs EXCEPT ![cur[p].thread] = @ + 1]
    /\ last' = NoDecision
    /\ UNCHANGED <<args, exc, loop, cur, checked, responded, rpt, batch, cm,
                   replies, upvoted, posts, unpaced>>

\* cache.set: data[key] = replies_per_thread + 1; put(Body=json.dumps(data))
SetPut(p) ==
    /\ pc[p] = "set_put"
    /\ rpt[p] + 1 <= MaxCount
    /\ store' = PutObject(DictSet(data[p], LedgerKey(cur[p].thread), rpt[p] + 1))
    /\ data' = [data EXCEPT ![p] = EmptyDict]
    /\ pc' = [pc EXCEPT ![p] = "reply"]
    /\ incs' = [incs EXCEPT ![cur[p].thread] = @ + 1]
    /\ last' = NoDecision
    /\ UNCHANGED <<args, exc, loop, cur, checked, responded, rpt, batch, cm,
                   replies, upvoted, posts, unpaced>>

\* comment.reply(...) / submission.reply(...)
Reply(p) ==
    /\ pc[p] = "reply"
    /\ posts[cur[p].thread] < MaxPosts
    /\ replies' = [replies EXCEPT ![Item(cur[p])] = @ + 1]
    /\ posts' = [posts EXCEPT ![cur[p].thread] = @ + 1]
    /\ pc' = [pc EXCEPT ![p] = "upvote"]
    /\ last' = NoDecision
    /\ unpaced' = [unpaced EXCEPT ![p] = TRUE]
    /\ UNCHANGED <<args, exc, loop, cur, checked, responded, rpt, data, batch, cm,
                   store, upvoted, incs>>

\* comment.upvote() / submission.upvote(); return True; the loop counts the reply.
Upvote(p) ==
    /\ pc[p] = "upvote"
    /\ upvoted' = [upvoted EXCEPT ![Item(cur[p])] = TRUE]
    /\ responded' = [responded EXCEPT ![p] = @ + 1]
    /\ pc' = [pc EXCEPT ![p] = "sleep"]
    /\ UNCHANGED <<args, exc, loop, cur, checked, rpt, data, batch, cm,
                   store, replies, posts, incs, last, unpaced>>

\* time.sleep(120), then `checked += 1`
Sleep(p) ==
    /\ pc[p] = "sleep"
    /\ Counted(p)
    /\ unpaced' = [unpaced EXCEPT ![p] = FALSE]
    /\ UNCHANGED <<args, exc, loop, responded, data, batch, cm,
                   store, replies, upvoted, posts, incs, last>>

\* ------------------------------------------------------------ cleanup loop

\* reddit.user.me().comments.new(limit=100): the bot's own live replies.
Fetch(p) ==
    /\ pc[p] = "fetch"
    /\ batch' = [batch EXCEPT ![p] = [i \in Items |-> replies[i]]]
    /\ pc' = [pc EXCEPT ![p] = "sweep"]
    /\ UNCHANGED <<args, exc, loop, cur, checked, responded, rpt, data, cm,
                   store, replies, upvoted, posts, incs, last, unpaced>>

\* `for comment in comments: comments_checked += 1`: the next reply of the
\* listing, with the score the community has given it.
Pick(p, i, s) ==
    /\ pc[p] = "sweep"
    /\ batch[p][i] > 0
    /\ checked[p] < MaxSwept
    /\ batch' = [batch EXCEPT ![p][i] = @ - 1]
    /\ cm' = [cm EXCEPT ![p] = [item |-> i, score |-> s]]
    /\ checked' = [checked EXCEPT ![p] = @ + 1]
    /\ pc' = [pc EXCEPT ![p] = "inspect"]
    /\ UNCHANGED <<args, exc, loop, cur, responded, rpt, data,
                   store, replies, upvoted, posts, incs, last, unpaced>>

\* (mutant) `if comment.score < 0`
ShouldDeleteBelowZero(score) == score < 0
\* `if comment.score < -1`
ShouldDelete(score) == score < SCORE_THRESHOLD

\* comment.delete() takes the reply off the platform (deleting again is a no-op).
Deleted(rep, i) == [rep EXCEPT ![i] = IF @ > 0 THEN @ - 1 ELSE 0]

Inspect(p) ==
    /\ pc[p] = "inspect"
    /\ replies' = IF ShouldDelete(cm[p].score) THEN Deleted(replies, cm[p].item)
                  ELSE replies
    /\ cm' = [cm EXCEPT ![p] = NoComment]
    /\ pc' = [pc EXCEPT ![p] = "sweep"]
    /\ last' = IF replies' = replies THEN last ELSE NoDecision
    /\ UNCHANGED <<args, exc, loop, cur, checked, responded, rpt, data, batch,
                   store, upvoted, posts, incs, unpaced>>

\* The listing is exhausted: time.sleep(60 * 30), then the next cycle.
Nap(p) ==
    /\ pc[p] = "sweep"
    /\ batch[p] = NoBatch
    /\ pc' = [pc EXCEPT ![p] = "fetch"]
    /\ UNCHANGED <<args, exc, loop, cur, checked, responded, rpt, data, batch, cm,
                   store, replies, upvoted, posts, incs, last, unpaced>>

\* -------------------------------------------------------------- exceptions

\* Where a process is inside a call to the platform (praw) ...
PlatformPcs == {"loop", "replies", "reply", "upvote", "fetch", "sweep"}
\* ... inside a call to the store (boto3) ...
StorePcs == {"get", "set_read", "set_put"}
\* ... and inside the try block of a stream loop.
StreamPcs == {"loop", "match", "replies", "get", "respond", "set_read", "set_put",
              "reply", "upvote", "sleep"}
CleanupPcs == {"fetch", "sweep", "inspect"}

InPlatformCall(p) ==
    \/ pc[p] \in PlatformPcs
    \/ pc[p] = "inspect" /\ ShouldDelete(cm[p].score)

\* An exception leaves the mode loop: its frame, with the counters, is gone.
Unwind(p, x) ==
    /\ exc' = [exc EXCEPT ![p] = x]
    /\ pc' = [pc EXCEPT ![p] = "except"]
    /\ cur' = [cur EXCEPT ![p] = NoEvent]
    /\ checked' = [checked EXCEPT ![p] = 0]
    /\ responded' = [responded EXCEPT ![p] = 0]
    /\ rpt' = [rpt EXCEPT ![p] = 0]
    /\ data' = [data EXCEPT ![p] = EmptyDict]
    /\ batch' = [batch EXCEPT ![p] = NoBatch]
    /\ cm' = [cm EXCEPT ![p] = NoComment]
    /\ last' = [last EXCEPT ![p] = <<>>]
    /\ UNCHANGED <<args, loop, store, replies, upvoted, posts, incs, unpaced>>

\* A platform call raises prawcore.exceptions.Forbidden.
RaiseForbidden(p) ==
    /\ InPlatformCall(p)
    /\ Unwind(p, "Forbidden")

\* (mutant) a failure of the store is logged and the response goes on
RaiseErrorLogged(p) ==
    /\ InPlatformCall(p) \/ pc[p] \in StorePcs
    /\ IF pc[p] \in StorePcs
       THEN /\ exc' = [exc EXCEPT ![p] = "ClientError"]
            /\ pc' = [pc EXCEPT ![p] = "reply"]
            /\ UNCHANGED <<args, loop, cur, checked, responded, rpt, data, batch, cm,
                           store, replies, upvoted, posts, incs, last, unpaced>>
       ELSE Unwind(p, "Error")

\* A platform call raises anything else than Forbidden ("Error"), or a store call
\* raises (botocore's ClientError and the like; NoSuchKey on a read is handled
\* inside RemoteFileCache.read). A request that fails has changed nothing.
RaiseError(p) ==
    /\ InPlatformCall(p) \/ pc[p] \in StorePcs
    /\ Unwind(p, IF pc[p] \in StorePcs THEN "ClientError" ELSE "Error")

\* (mutant) the stream loops without their `except KeyboardInterrupt`
InterruptPropagates(p) ==
    /\ pc[p] \in StreamPcs \cup CleanupPcs
    /\ Unwind(p, "KeyboardInterrupt")

\* KeyboardInterrupt. A stream loop catches it, logs its counters and calls
\* sys.exit(); the cleanup loop has no handler, so it propagates.
Interrupt(p) ==
    /\ pc[p] \in StreamPcs \cup CleanupPcs
    /\ IF pc[p] \in StreamPcs
       THEN /\ pc' = [pc EXCEPT ![p] = "stopped"]
            /\ cur' = [cur EXCEPT ![p] = NoEvent]
            /\ rpt' = [rpt EXCEPT ![p] = 0]
            /\ data' = [data EXCEPT ![p] = EmptyDict]
            /\ last' = [last EXCEPT ![p] = <<>>]
            /\ UNCHANGED <<args, exc, loop, checked, responded, batch, cm,
                           store, replies, upvoted, posts, incs, unpaced>>
       ELSE Unwind(p, "KeyboardInterrupt")

\* (mutants) no handler; `except Exception`
CaughtNothing(x) == FALSE
CaughtAnything(x) == x \in {"Forbidden", "Error"}
\* main(): `except Forbidden`
Caught(x) == x = "Forbidden"

\* main(): the handler logs and `continue`s; any other exception ends the process.
Supervise(p) ==
    /\ pc[p] = "except"
    /\ IF Caught(exc[p])
       THEN /\ pc' = [pc EXCEPT ![p] = "main"]
            /\ exc' = [exc EXCEPT ![p] = "none"]
       ELSE /\ pc' = [pc EXCEPT ![p] = "failed"]
            /\ exc' = exc
    /\ UNCHANGED <<args, loop, cur, checked, responded, rpt, data, batch, cm,
                   store, replies, upvoted, posts, incs, last, unpaced>>

\* ------------------------------------------------------------ specification

Next ==
    \E p \in Procs :
        \/ Main(p)
        \/ \E e \in StreamEvents : NextEvent(p, e)
        \/ Match(p)
        \/ CheckReplies(p)
        \/ LedgerGet(p)
        \/ Respond(p)
        \/ SetRead(p)
        \/ SetPut(p)
        \/ Reply(p)
        \/ Upvote(p)
        \/ Sleep(p)
        \/ Fetch(p)
        \/ \E i \in Items, s \in Scores : Pick(p, i, s)
        \/ Inspect(p)
        \/ Nap(p)
        \/ RaiseForbidden(p)
        \/ RaiseError(p)
        \/ Interrupt(p)
        \/ Supervise(p)

Spec == Init /\ [][Next]_vars

\* ------------------------------------------- two stream processes at once

\* The flags of a real (not dry) run of one mode.
Flags(m) ==
    [comments |-> m = "comments", submissions |-> m = "submissions",
     cleanup |-> m = "cleanup", dry_run |-> FALSE]

\* A deployment with two writers: p1 started with --comments, p2 with
\* --submissions, on the same bucket and the same platform.
TwoWriters == [p \in Procs |-> IF p = "p1" THEN Flags("comments") ELSE Flags("submissions")]

\* The events of every thread that pass the trigger and blacklist tests.
PassingEvents == {e \in Events : Triggered(e) /\ ~Blacklisted(e)}

\* The state of the processes before main() has run.
NotStarted ==
    /\ pc = [p \in Procs |-> "main"]
    /\ exc = [p \in Procs |-> "none"]
    /\ loop = [p \in Procs |-> "none"]
    /\ cur = [p \in Procs |-> NoEvent]
    /\ checked = [p \in Procs |-> 0]
    /\ responded = [p \in Procs |-> 0]
    /\ rpt = [p \in Procs |-> 0]
    /\ data = [p \in Procs |-> EmptyDict]
    /\ batch = [p \in Procs |-> NoBatch]
    /\ cm = [p \in Procs |-> NoComment]
    /\ last = NoDecision
    /\ unpaced = [p \in Procs |-> FALSE]

PairInit == args = TwoWriters /\ NotStarted /\ Fresh

\* The two stream loops side by side; an exception ends a process here.
PairNext ==
    \E p \in Procs :
        \/ Main(p)
        \/ \E e \in PassingEvents : NextEvent(p, e)
        \/ Match(p)
        \/ CheckReplies(p)
        \/ LedgerGet(p)
        \/ Respond(p)
        \/ SetRead(p)
        \/ SetPut(p)
        \/ Reply(p)
        \/ Upvote(p)
        \/ Sleep(p)
        \/ RaiseError(p)
        \/ Interrupt(p)
        \/ Supervise(p)

PairSpec == PairInit /\ [][PairNext]_vars

\* ------------------------------------ one stream process over every thread

\* p1 runs one stream loop, p2 was started without a mode.
OneWriter ==
    {f \in [Procs -> LaunchArgs] :
        f["p1"] \in {Flags("comments"), Flags("submissions")} /\ ModeFlags(f["p2"]) = {}
        /\ ~f["p2"].dry_run}

SoloInit == args \in OneWriter /\ NotStarted /\ Fresh

\* The stream loop with its restarts, fed the events of every thread.
SoloNext ==
    \E p \in Procs :
        \/ Main(p)
        \/ \E e \in PassingEvents : NextEvent(p, e)
        \/ Match(p)
        \/ CheckReplies(p)
        \/ LedgerGet(p)
        \/ Respond(p)
        \/ SetRead(p)
        \/ SetPut(p)
        \/ Reply(p)
        \/ Upvote(p)
        \/ Sleep(p)
        \/ RaiseForbidden(p)
        \/ RaiseError(p)
        \/ Interrupt(p)
        \/ Supervise(p)

SoloSpec == SoloInit /\ [][SoloNext]_vars

\* ------------------------------------------------------------------ claims

\* The counter the stored ledger document holds for thread t (0 when there is no
\* document or no such member), read off the document itself.
StoredCount(t) ==
    IF store = NoSuchKey THEN 0
    ELSE LET ms == {m \in store[1] : m[1] = LedgerKey(t)}
         IN IF ms = {} THEN 0 ELSE (CHOOSE m \in ms : TRUE)[2]

\* The bot's live replies in thread t.
Live(t) == replies[<<"submission", t>>] + replies[<<"comment", t>>]

StreamModes == {"comments", "submissions"}

\* C1: in no thread does the bot ever post more replies than the per-thread
\* ceiling (1), over any sequence of comment and submission events, restarts and
\* retractions.
C1_AtMostN == \A t \in Threads : posts[t] <= 1

\* C2: for every thread the counter in the stored ledger is at most the
\* per-thread ceiling (1).
C2_CounterWithinCeiling == \A t \in Threads : StoredCount(t) <= 1

\* An event whose text matches a trigger term and whose context text matches a
\* blacklist term.
Suppressed(e) == MatchesTrigger(CombinedText(e)) /\ MatchesBlacklist(ContextText(e))

\* C3: a stream loop that holds a suppressed event is either testing it or back at
\* the top of the loop: it is never inside the responder, so never at a ledger
\* read or write, a post or an upvote for it.
C3_SuppressionPrecedence ==
    \A p \in Procs :
        (cur[p].kind # "none" /\ Suppressed(cur[p])) => pc[p] \in {"match", "loop"}

\* A stream loop has consumed a suppressed event (a comment: one that only its
\* subreddit's name suppresses) and gone back for the next one.
C3_Witness ==
    \E p \in Procs :
        /\ pc[p] = "loop" /\ cur[p].kind # "none" /\ Suppressed(cur[p])
        /\ cur[p].kind = "comment" => ~MatchesBlacklist(cur[p].body)

\* A step of process p that ends the loop iteration for the event it holds.
EndsIteration(p) == pc[p] \in StreamPcs \ {"loop"} /\ pc'[p] = "loop"

\* C4: a step of a stream loop started with --dry-run never writes the ledger,
\* posts, or upvotes, its responder never returns True, and every event it is done
\* with has been counted in `checked`.
C4_DryRun ==
    [][\A p \in Procs :
          (args[p].dry_run /\ loop[p] \in StreamModes /\ pc[p] \in StreamPcs
                /\ pc'[p] # pc[p])
          => /\ UNCHANGED <<store, replies, upvoted, posts>>
             /\ responded'[p] = 0
             /\ EndsIteration(p) => checked'[p] = checked[p] + 1]_vars

\* The part of C4 that is about effects only: no ledger write, no post, no upvote,
\* no True result in a dry run.
DryRunHasNoEffects ==
    [][\A p \in Procs :
          (args[p].dry_run /\ loop[p] \in StreamModes /\ pc[p] \in StreamPcs
                /\ pc'[p] # pc[p])
          => /\ UNCHANGED <<store, replies, upvoted, posts>>
             /\ responded'[p] = 0]_vars

\* C5: with one writer, the ledger read for a thread returns the number of
\* increments completed for it, whatever was incremented for other threads: n
\* sequential increments of k leave k at n and every other counter as it was.
C5_IncrementCounts ==
    \A t \in Threads :
        /\ OrZero(CacheGet(store, LedgerKey(t))) = incs[t]
        /\ StoredCount(t) = incs[t]

\* Two increments of one thread are done, next to the counter of an old thread.
C5_Witness ==
    \E t \in StreamThreads, u \in OldThreads :
        incs[t] = 2 /\ incs[u] = 1 /\ OrZero(CacheGet(store, LedgerKey(t))) = 2

\* A step of process p that is not a raise or an interrupt.
Proceeds(p) == pc'[p] \notin {pc[p], "except", "stopped"}

\* C6: while there is no ledger object, the read of cache.get yields count 0 and
\* the responder goes on as for a thread never replied in, the read inside
\* cache.set yields the empty snapshot, and the put that follows creates the
\* document with this thread's counter at 1 and nothing else.
C6_MissingLedgerObject ==
    [][\A p \in Procs :
          (store = NoSuchKey /\ Proceeds(p))
          => /\ pc[p] = "get" => rpt'[p] = 0 /\ pc'[p] \in {"respond", "set_read"}
             /\ pc[p] = "set_read" => data'[p] = EmptyDict /\ pc'[p] = "set_put"
             /\ pc[p] = "set_put" =>
                    store' = <<{<<LedgerKey(cur[p].thread), 1>>}>>]_vars

\* The first increment has created the document, which holds one counter, at 1.
C6_Witness ==
    /\ store # NoSuchKey
    /\ \E t \in StreamThreads : store[1] = {<<LedgerKey(t), 1>>}
    /\ \E p \in Procs : pc[p] = "reply"

\* The responder is deciding on the event it holds (reply_to_comment: the replies
\* and the ledger count; reply_to_submission: the replies).
Deciding(p) ==
    \/ pc[p] = "replies"
    \/ pc[p] = "get" /\ cur[p].kind = "comment"

\* The responder's decision for event e in the current state, written out: the
\* bot is not among the replies, and for a comment the stored count is below 1.
Eligible(e) ==
    /\ IF e.kind = "comment" THEN replies[Item(e)] = 0 ELSE Live(e.thread) = 0
    /\ e.kind = "comment" => StoredCount(e.thread) < 1

\* C7: a deciding step leaves ledger and platform as they are; the decision it
\* reaches is the one the current ledger and platform determine; and when the
\* same event was decided on before with no response or retraction since, the
\* decision is the same as then.
C7_EligibilityIdempotent ==
    [][\A p \in Procs :
          (Deciding(p) /\ Proceeds(p))
          => /\ UNCHANGED <<store, replies, upvoted, posts>>
             /\ pc'[p] = "respond" => Eligible(cur[p])
             /\ pc'[p] = "loop" => ~Eligible(cur[p])
             /\ (pc'[p] \in {"respond", "loop"} /\ last[p] # <<>> /\ last[p][1] = cur[p])
                    => last[p][2] = (pc'[p] = "respond")]_vars

\* An event is decided on for the second time in a row, and found eligible again
\* (a dry run: the first decision led to no response).
C7_Witness ==
    \E p \in Procs :
        /\ pc[p] = "respond" /\ checked[p] >= 1
        /\ last[p] = <<cur[p], TRUE, 2>>

C9_SupervisorRestart ==
    [][\A p \in Procs :
          /\ args'[p] = args[p]
          /\ (exc[p] = "none" /\ exc'[p] = "Forbidden")
                => pc'[p] = "except" /\ store' = store
          /\ (pc[p] = "except" /\ exc[p] = "Forbidden" /\ pc'[p] # "except")
                => pc'[p] = "main" /\ loop'[p] = loop[p] /\ store' = store
          /\ (pc[p] = "main" /\ loop[p] # "none" /\ pc'[p] # "main")
                => /\ loop'[p] = loop[p]
                   /\ pc'[p] = (IF loop[p] = "cleanup" THEN "fetch" ELSE "loop")
                   /\ checked'[p] = 0 /\ responded'[p] = 0
                   /\ store' = store]_vars

\* A stream loop is running again, counters at 0, after a Forbidden that came
\* between the ledger write and the post: the thread is counted, nothing posted.
C9_Witness ==
    \E p \in Procs : \E t \in StreamThreads :
        /\ pc[p] = "loop" /\ checked[p] = 0 /\ responded[p] = 0
        /\ StoredCount(t) = 1 /\ posts[t] = 0 /\ exc[p] = "none"

\* C10: an exception other than Forbidden that reaches the supervisor ends the
\* process: its only step is to the terminal state, which it never leaves, and in
\* which nothing of the process changes any more.
C10_FatalError ==
    [][\A p \in Procs :
          /\ (pc[p] = "except" /\ exc[p] # "Forbidden" /\ pc'[p] # "except")
                => pc'[p] = "failed"
          /\ pc[p] = "failed"
                => /\ pc'[p] = "failed" /\ exc'[p] = exc[p] /\ loop'[p] = loop[p]
                   /\ exc[p] # "Forbidden"]_vars

\* A process has ended on an error while the other is still running.
C10_Witness ==
    \E p, q \in Procs :
        /\ pc[p] = "failed" /\ exc[p] = "Error" /\ loop[p] \in StreamModes
        /\ pc[q] \in CleanupPcs

\* C11: an interrupt in a stream loop (consuming, evaluating, responding or in
\* cooldown) never leaves the loop as an exception; the process goes to the
\* terminal state Stopped with the counters it had, and once there it stays
\* there: it consumes no event, is not restarted, and its counters stay as
\* reported.
C11_InterruptStops ==
    [][\A p \in Procs :
          /\ (loop[p] \in StreamModes /\ exc[p] = "none") => exc'[p] # "KeyboardInterrupt"
          /\ (pc[p] # "stopped" /\ pc'[p] = "stopped")
                => /\ pc[p] \in StreamPcs /\ loop[p] \in StreamModes
                   /\ checked'[p] = checked[p] /\ responded'[p] = responded[p]
          /\ pc[p] = "stopped"
                => /\ pc'[p] = "stopped" /\ loop'[p] = loop[p] /\ cur'[p] = cur[p]
                   /\ checked'[p] = checked[p] /\ responded'[p] = responded[p]]_vars

\* A stream loop was interrupted after an event it replied to and counted.
C11_Witness ==
    \E p \in Procs :
        pc[p] = "stopped" /\ loop[p] \in StreamModes /\ checked[p] = 1 /\ responded[p] = 1

\* A process is past the responder's decision for the event it holds: inside
\* cache.set, at the post or at the upvote.
Responding(p) == pc[p] \in {"set_read", "set_put", "reply", "upvote"}

\* C12: a response (ledger write, post, upvote) is under way only for an event
\* of either variant whose thread's ledger count, read at decision time, was
\* below the per-thread ceiling.
C12_LedgerCeilingGate ==
    \A p \in Procs :
        Responding(p) => rpt[p] < MAX_COMMENT_REPLIES_PER_SUBMISSION

\* A step of process p that is a raise or an interrupt.
Aborts(p) == pc[p] \notin {"except", "stopped"} /\ pc'[p] \in {"except", "stopped"}

\* C13: a reply is posted into a thread only when an increment for the thread
\* has been written that no post has used yet, and the document then holds a
\* counter for the thread; the upvote comes only after the post; and a response
\* that is cut off at the post or at the upvote leaves the ledger, with the
\* increment, as it is.
C13_ReservationBeforePost ==
    [][/\ \A t \in Threads :
             posts'[t] > posts[t]
             => incs[t] > posts[t] /\ StoredCount(t) >= 1 /\ store' = store
       /\ \A p \in Procs :
             /\ (pc'[p] = "reply" /\ pc[p] # "reply") => store' # store /\ pc[p] = "set_put"
             /\ (pc'[p] = "upvote" /\ pc[p] # "upvote")
                    => pc[p] = "reply" /\ posts'[cur[p].thread] = posts[cur[p].thread] + 1
             /\ (pc[p] \in {"reply", "upvote"} /\ Aborts(p))
                    => store' = store /\ incs' = incs /\ StoredCount(cur[p].thread) >= 1]_vars

\* A post has failed for good after its increment: the thread is counted in the
\* ledger and no reply was ever posted in it.
C13_Witness ==
    \E p \in Procs : \E t \in StreamThreads :
        /\ pc[p] = "failed" /\ loop[p] \in StreamModes
        /\ StoredCount(t) = 1 /\ incs[t] = 1 /\ posts[t] = 0

\* C14: every step with which a stream loop is done with the event it holds
\* (no trigger match, blacklisted, ineligible, dry run, or replied and slept)
\* raises `checked` by exactly one.
C14_CheckedCountsEveryEvent ==
    [][\A p \in Procs :
          (loop[p] \in StreamModes /\ EndsIteration(p)) => checked'[p] = checked[p] + 1]_vars

\* The part of C14 that leaves the blacklist branch out: an event that is not
\* suppressed is counted once.
CheckedCountsUnsuppressed ==
    [][\A p \in Procs :
          (loop[p] \in StreamModes /\ EndsIteration(p) /\ ~Suppressed(cur[p]))
          => checked'[p] = checked[p] + 1]_vars

\* C15: a response that returns True is followed by the cooldown before the
\* next event; a process never posts while a post of its own has had no cooldown
\* after it; and the cooldown is entered only from a response that returned
\* True.
C15_Cooldown ==
    [][\A p \in Procs :
          /\ (pc[p] = "upvote" /\ ~Aborts(p) /\ pc'[p] # "upvote") => pc'[p] = "sleep"
          /\ (pc[p] = "reply" /\ pc'[p] = "upvote") => ~unpaced[p]
          /\ (pc'[p] = "sleep" /\ pc[p] # "sleep")
                => pc[p] = "upvote" /\ responded'[p] = responded[p] + 1]_vars

\* The part of C15 about the loop's own control flow: a True result leads to the
\* cooldown and to nothing else before the next event, and only a True result
\* leads there.
CooldownFollowsTrueResult ==
    [][\A p \in Procs :
          /\ (pc[p] = "upvote" /\ ~Aborts(p) /\ pc'[p] # "upvote") => pc'[p] = "sleep"
          /\ (pc[p] = "sleep" /\ ~Aborts(p) /\ pc'[p] # "sleep") => pc'[p] = "loop"
          /\ (pc'[p] = "sleep" /\ pc[p] # "sleep")
                => pc[p] = "upvote" /\ responded'[p] = responded[p] + 1]_vars

\* The counter thread t will have in the document after the step.
StoredCountAfter(t) ==
    IF store' = NoSuchKey THEN 0
    ELSE LET ms == {m \in store'[1] : m[1] = LedgerKey(t)}
         IN IF ms = {} THEN 0 ELSE (CHOOSE m \in ms : TRUE)[2]

\* C16: with two writers, the put of an increment leaves every other thread's
\* counter at what the writer read before, not at what the document holds at the
\* put: an increment another process completed in between is gone from the
\* stored snapshot.
C16_LostUpdate ==
    [][\A p \in Procs :
          (pc[p] = "set_put" /\ pc'[p] = "reply")
          => \A t \in Threads \ {cur[p].thread} :
                 StoredCountAfter(t) = OrZero(DictGet(data[p], LedgerKey(t)))]_vars

\* Both processes have completed one increment, on different threads, and the
\* stored document has the counter of one of them only.
C16_Witness ==
    \E p, q \in Procs :
        /\ p # q /\ pc[p] \in {"reply", "upvote", "sleep"} /\ pc[q] \in {"reply", "upvote", "sleep"}
        /\ cur[p].thread # cur[q].thread
        /\ incs[cur[p].thread] = 1 /\ incs[cur[q].thread] = 1
        /\ StoredCount(cur[p].thread) = 0 /\ StoredCount(cur[q].thread) = 1

\* Process p was started with none of --comments, --submissions, --cleanup.
NoMode(p) == ~args[p].comments /\ ~args[p].submissions /\ ~args[p].cleanup

\* C17: a process started without a mode is only ever at the top of main() or
\* at sys.exit(1); its one step, the first pass of main(), ends at sys.exit(1)
\* and touches neither ledger nor platform; it enters no loop, holds no event,
\* and never leaves the exit.
C17_NoModeExits ==
    [][\A p \in Procs :
          NoMode(p)
          => /\ pc[p] \in {"main", "exit1"} /\ loop[p] = "none" /\ cur[p] = NoEvent
             /\ (pc[p] = "main" /\ pc'[p] # "main")
                    => /\ pc'[p] = "exit1" /\ loop'[p] = "none" /\ cur'[p] = NoEvent
                       /\ UNCHANGED <<store, replies, upvoted, posts, incs>>
             /\ pc[p] = "exit1" => pc'[p] = "exit1"]_vars

\* A process without a mode has exited while another one is in its stream loop.
C17_Witness ==
    \E p, q \in Procs :
        /\ NoMode(p) /\ pc[p] = "exit1" /\ exc[p] = "none"
        /\ loop[q] \in StreamModes /\ pc[q] = "match"

\* C18: a failure of the store during a response (at the read of cache.get, at
\* the read inside cache.set or at its put) leaves the responder at once, with
\* ledger document and platform as they were; the process then only goes to its
\* end, posting and upvoting nothing and writing nothing.
C18_StoreFailureAborts ==
    [][\A p \in Procs :
          /\ (exc[p] = "none" /\ exc'[p] = "ClientError")
                => /\ pc[p] \in StorePcs /\ pc'[p] = "except" /\ cur'[p] = NoEvent
                   /\ UNCHANGED <<store, replies, upvoted, posts, incs>>
          /\ exc[p] = "ClientError"
                => /\ pc[p] \in {"except", "failed"} /\ exc'[p] = "ClientError"
                   /\ pc'[p] # pc[p]
                        => /\ pc'[p] = "failed"
                           /\ UNCHANGED <<store, replies, upvoted, posts, incs>>]_vars

\* A stream process has ended on a store failure in its first response: there is
\* no ledger document and no reply.
C18_Witness ==
    \E p \in Procs :
        /\ pc[p] = "failed" /\ exc[p] = "ClientError" /\ loop[p] \in StreamModes
        /\ store = NoSuchKey /\ \A t \in Threads : posts[t] = 0 /\ incs[t] = 0

\* C19: with a single writer, the replies ever posted into a thread are at most
\* the counter the stored ledger holds for the thread.
C19_PostsWithinCounter == \A t \in Threads : posts[t] <= StoredCount(t)

\* A thread with two posts and its counter at 2.
C19_Witness == \E t \in StreamThreads : posts[t] = 2 /\ StoredCount(t) = 2

\* C20: no step of the sweeper changes the ledger document; with a single
\* writer no step lowers or removes a thread's counter; and the comment loop
\* posts into a thread only if the counter it read for it was below the
\* ceiling and nothing was posted there before, so not in a thread whose counter
\* has reached the ceiling, whether or not the reply there is still up.
C20_SweeperKeepsLedger ==
    [][/\ \A p \in Procs : (loop[p] = "cleanup" /\ pc'[p] # pc[p]) => store' = store
       /\ \A t \in Threads : StoredCountAfter(t) >= StoredCount(t)
       /\ \A p \in Procs :
             (loop[p] = "comments" /\ pc[p] = "reply" /\ pc'[p] = "upvote")
             => /\ rpt[p] < MAX_COMMENT_REPLIES_PER_SUBMISSION
                /\ StoredCount(cur[p].thread) = rpt[p] + 1
                /\ posts[cur[p].thread] = 0]_vars

\* The sweeper has retracted the bot's one reply in a thread, the counter is
\* still 1, and the comment loop has since found a comment of the thread
\* ineligible.
C20_Witness ==
    \E p \in Procs : \E t \in StreamThreads :
        /\ loop[p] = "comments" /\ pc[p] = "loop" /\ cur[p].kind = "comment"
        /\ cur[p].thread = t /\ last[p] # <<>> /\ last[p][1] = cur[p] /\ ~last[p][2]
        /\ posts[t] = 1 /\ Live(t) = 0 /\ StoredCount(t) = 1

====
